---- MODULE Spec2Model ----
(***************************************************************************)
(* A model of EPGi.py: the provider cache (EPGProvider.get_channels), the  *)
(* XMLTV parser (EPGProvider._parse_xml), the four screens                 *)
(* (Screen1..Screen4) and the screen-stack loop (EPGi.run).                *)
(*                                                                         *)
(* One step of the model is one iteration of EPGi.run: the top screen is   *)
(* drawn, one key is read, the screen's handle_input runs and the stack is *)
(* updated.  The wall clock advances between iterations (Tick).            *)
(*                                                                         *)
(* Timestamps are absolute instants 0..MaxTime+1.  Channel names and the   *)
(* filter text are sequences of one-character strings.  In Spec the        *)
(* terminal has at least 3 rows, so every handle_input page size           *)
(* (height - 2) is >= 1; SpecAnyHeight runs the same loop on terminals of  *)
(* 1 row and more, SpecProgress draws the progress column of one row for   *)
(* any start, stop and instant, and SpecAttributes collects the attributes *)
(* mapping of one programme element.                                       *)
(***************************************************************************)
EXTENDS Integers, Sequences, FiniteSets, TLC

\* ------------------------------------------------------------------ bounds
MaxHeight == 4
MaxTime == 2
MaxProviders == 2
MaxLines == 2
MaxStamp == 5
MaxIndex == 3
MaxChildren == 2

Heights == 3..MaxHeight
Providers == 1..MaxProviders
\* the instants a programme of a drawn row starts and stops at
Stamps == 0..MaxStamp

\* ------------------------------------------------------- python primitives
Min(a, b) == IF a < b THEN a ELSE b
Max(a, b) == IF a > b THEN a ELSE b

\* list[i] raises IndexError unless -len <= i < len
IndexOK(i, n) == (0 - n) <= i /\ i < n
\* list[i], negative indices counting from the end
At(s, i) == IF i >= 0 THEN s[i + 1] ELSE s[Len(s) + i + 1]

\* str.lower() on the characters used for names
Lower(c) ==
    CASE c = "A" -> "a"
      [] c = "B" -> "b"
      [] c = "N" -> "n"
      [] OTHER -> c
LowerStr(s) == [i \in 1..Len(s) |-> Lower(s[i])]

\* t in s  (substring test)
Contains(t, s) ==
    \E k \in 0..(Len(s) - Len(t)) : SubSeq(s, k + 1, k + Len(t)) = t

\* code points, for the ordering of str
CharCode(c) ==
    CASE c = "A" -> 65
      [] c = "B" -> 66
      [] c = "N" -> 78
      [] c = "a" -> 97
      [] c = "b" -> 98
      [] c = "n" -> 110
      [] OTHER -> 122

RECURSIVE StrLE(_, _)
\* a <= b for str: lexicographic by code point
StrLE(a, b) ==
    IF a = <<>> THEN TRUE
    ELSE IF b = <<>> THEN FALSE
    ELSE IF CharCode(Head(a)) < CharCode(Head(b)) THEN TRUE
    ELSE IF CharCode(Head(a)) > CharCode(Head(b)) THEN FALSE
    ELSE StrLE(Tail(a), Tail(b))

\* ------------------------------------------------------------ the feeds
\* a timestamp attribute: t is the instant (-1: text that is not a
\* timestamp), off tells whether the " +HHMM" offset suffix is present
Stamp(t) == [t |-> t, off |-> TRUE]
BadStamp == [t |-> 0 - 1, off |-> TRUE]
BareStamp(t) == [t |-> t, off |-> FALSE]

ChannelElem(id, name) == [id |-> id, name |-> name]
ProgElem(ch, start, stop, title) ==
    [channel |-> ch, start |-> start, stop |-> stop, title |-> title]

\* three channels given out of name order, programmes out of start order
\* (two of channel 1 overlap, the one of channel 2 starts late),
\* a channel element without id, one without display name, and a programme
\* of a channel the feed does not declare
Feed1 ==
    [channels |-> << ChannelElem("2", <<"b">>),
                     ChannelElem("1", <<"N", "a">>),
                     ChannelElem("", <<"a">>),
                     ChannelElem("3", <<"n", "B">>),
                     ChannelElem("4", <<>>) >>,
     programmes |-> << ProgElem("1", Stamp(1), Stamp(4), "q"),
                       ProgElem("3", Stamp(1), Stamp(2), "q"),
                       ProgElem("1", Stamp(0), Stamp(2), "p"),
                       ProgElem("2", Stamp(2), Stamp(3), "r"),
                       ProgElem("3", Stamp(2), Stamp(4), "r"),
                       ProgElem("3", Stamp(0), Stamp(1), "p"),
                       ProgElem("9", Stamp(0), Stamp(4), "x") >>]

\* one channel with overlapping programmes, nothing on air at instant 0, a
\* programme whose start is no timestamp and one whose stamps have no offset
Feed2 ==
    [channels |-> << ChannelElem("1", <<"B">>) >>,
     programmes |-> << ProgElem("1", Stamp(1), Stamp(4), "p"),
                       ProgElem("1", Stamp(1), Stamp(2), "q"),
                       ProgElem("1", BadStamp, Stamp(2), "z"),
                       ProgElem("1", BareStamp(0), BareStamp(4), "w") >>]

Feeds == {Feed1, Feed2}

\* the document the URL of provider p serves
ServedBy(p) == IF p % 2 = 1 THEN Feed1 ELSE Feed2

\* ------------------------------------------------- EPGProvider._parse_xml
\* datetime.strptime(text, "%Y%m%d%H%M%S %z") raises ValueError unless the
\* text is a timestamp followed by an offset
StrptimeOK(raw) == raw.t >= 0 /\ raw.off
Strptime(raw) == raw.t

RECURSIVE BuildChannels(_, _)
\* the dict channels after the first n channel elements
BuildChannels(elems, n) ==
    IF n = 0 THEN <<>>
    ELSE LET d == BuildChannels(elems, n - 1)
             e == elems[n]
             entry == [id |-> e.id, name |-> e.name, programmes |-> <<>>]
         IN IF e.id # "" /\ e.name # <<>>
            THEN IF \E i \in 1..Len(d) : d[i].id = e.id
                 THEN [i \in 1..Len(d) |->
                          IF d[i].id = e.id THEN entry ELSE d[i]]
                 ELSE Append(d, entry)
            ELSE d

RECURSIVE AddProgrammesAborting(_, _, _)
\* a programme that fails to parse ends the loop and leaves no channel
AddProgrammesAborting(d, elems, n) ==
    IF n = 0 THEN d
    ELSE LET prev == AddProgrammesAborting(d, elems, n - 1)
             e == elems[n]
             programme_data == [title |-> e.title,
                                start |-> Strptime(e.start),
                                stop |-> Strptime(e.stop)]
         IN IF \E i \in 1..Len(prev) : prev[i].id = e.channel
            THEN IF StrptimeOK(e.start) /\ StrptimeOK(e.stop)
                 THEN [i \in 1..Len(prev) |->
                          IF prev[i].id = e.channel
                          THEN [prev[i] EXCEPT
                                   !.programmes = Append(@, programme_data)]
                          ELSE prev[i]]
                 ELSE <<>>
            ELSE prev

RECURSIVE AddProgrammes(_, _, _)
\* the dict channels after the first n programme elements
AddProgrammes(d, elems, n) ==
    IF n = 0 THEN d
    ELSE LET prev == AddProgrammes(d, elems, n - 1)
             e == elems[n]
             programme_data == [title |-> e.title,
                                start |-> Strptime(e.start),
                                stop |-> Strptime(e.stop)]
         IN IF (\E i \in 1..Len(prev) : prev[i].id = e.channel)
               /\ StrptimeOK(e.start) /\ StrptimeOK(e.stop)
            THEN [i \in 1..Len(prev) |->
                     IF prev[i].id = e.channel
                     THEN [prev[i] EXCEPT
                              !.programmes = Append(@, programme_data)]
                     ELSE prev[i]]
            ELSE prev

\* the programmes left in document order
InsertAtEnd(sorted, p) == Append(sorted, p)

\* list.sort is stable: x goes after every element whose key is <= its own
InsertByStart(sorted, p) ==
    LET k == Cardinality({i \in 1..Len(sorted) : sorted[i].start <= p.start})
    IN SubSeq(sorted, 1, k) \o <<p>> \o SubSeq(sorted, k + 1, Len(sorted))

RECURSIVE SortProgrammes(_, _)
SortProgrammes(s, n) ==
    IF n = 0 THEN <<>>
    ELSE InsertByStart(SortProgrammes(s, n - 1), s[n])

InsertByName(sorted, c) ==
    LET k == Cardinality({i \in 1..Len(sorted) : StrLE(sorted[i].name, c.name)})
    IN SubSeq(sorted, 1, k) \o <<c>> \o SubSeq(sorted, k + 1, Len(sorted))

RECURSIVE SortChannels(_, _)
SortChannels(s, n) ==
    IF n = 0 THEN <<>>
    ELSE InsertByName(SortChannels(s, n - 1), s[n])

ParseXml(feed) ==
    LET channels == AddProgrammes(BuildChannels(feed.channels, Len(feed.channels)),
                                  feed.programmes, Len(feed.programmes))
        channel_list == [i \in 1..Len(channels) |->
                            [name |-> channels[i].name,
                             programmes |-> SortProgrammes(channels[i].programmes,
                                                Len(channels[i].programmes))]]
    IN SortChannels(channel_list, Len(channel_list))

\* ------------------------------- EPGProvider._parse_xml, the attributes
\* str.strip() on the texts used for child elements
Strip(text) ==
    CASE text = " " -> ""
      [] text = "y " -> "y"
      [] OTHER -> text

RECURSIVE BuildAttributes(_, _, _)
\* the dict attributes after the first n children: one entry per key in
\* insertion order; an entry holds a single str (isList false, one item) or
\* a list of str
BuildAttributes(attrib, children, n) ==
    IF n = 0
    THEN [i \in 1..Len(attrib) |->
             [key |-> attrib[i].name, isList |-> FALSE,
              items |-> << attrib[i].value >>]]
    ELSE LET prev == BuildAttributes(attrib, children, n - 1)
             tag == children[n].tag
             value == Strip(children[n].text)
         IN IF Strip(children[n].text) = "" THEN prev
            ELSE IF \E i \in 1..Len(prev) : prev[i].key = tag
            THEN [i \in 1..Len(prev) |->
                     IF prev[i].key = tag
                     THEN [key |-> tag, isList |-> TRUE,
                           items |-> Append(prev[i].items, value)]
                     ELSE prev[i]]
            ELSE Append(prev, [key |-> tag, isList |-> FALSE,
                               items |-> << value >>])

\* no programme element given
NoElement == [done |-> FALSE, attrib |-> <<>>, children |-> <<>>,
              result |-> <<>>]

\* ------------------------------------------------------------------ state
VARIABLES
    height,         \* BaseScreen.height, from stdscr.getmaxyx()
    numProviders,   \* len(config.urls)
    now,            \* datetime.now(config.tz)
    channel_cache,  \* EPGProvider._channel_data of each provider
    fetchCount,     \* how many times requests.get ran for each provider
    fetched,        \* what get_channels did in the last loop iteration:
                    \* "none" (not called), "cached" (returned the stored
                    \* data) or the outcome of its fetch
    screen_stack,   \* EPGi.screen_stack
    key,            \* the key read last by EPGi.run
    status,         \* "running", "exited" (EXIT) or "crashed" (an exception
                    \* left EPGi.run and was logged by main)
    drawn,          \* the progress column Screen2.display computed for one
                    \* row (used where the row is given from outside)
    attributes      \* the attributes dict _parse_xml built for one
                    \* programme element (used where the element is given
                    \* from outside)

vars == << height, numProviders, now, channel_cache, fetchCount, fetched,
           screen_stack, key, status, drawn, attributes >>

Keys == {"UP", "DOWN", "HOME", "END", "PPAGE", "NPAGE", "RIGHT", "ENTER",
         "LEFT", "ESC", "F", "C"}
FilterTexts == { <<>>, <<"N">>, <<"a", "b">> }
Failures == {"transport", "gzip", "xml", "other"}
Outcomes == {"ok"} \cup Failures

NoProgram == [title |-> "", start |-> 0, stop |-> 0]
NoChannel == [name |-> <<>>, programmes |-> <<>>]
\* the fields of the four screen classes; a screen leaves the fields of the
\* other classes at these values
BaseScreen ==
    [kind |-> "", provider_num |-> 0, all_channels |-> <<>>,
     filtered_channels |-> <<>>, filter_text |-> <<>>,
     channel_data |-> NoChannel, programmes |-> <<>>, program |-> NoProgram,
     num_lines |-> 0, current_line |-> 0, top_line |-> 0]

\* ------------------------------------------------ EPGProvider.get_channels
NoData == [isNone |-> TRUE, value |-> <<>>]

\* "if self._channel_data:" in place of "is not None"
CachedIfTruthy(entry) == ~entry.isNone /\ entry.value # <<>>

Cached(entry) == ~entry.isNone

\* a failure that returns [] without storing it
FetchedNotStored(outcome, feed) ==
    IF outcome = "ok"
    THEN [isNone |-> FALSE, value |-> ParseXml(feed)]
    ELSE [isNone |-> TRUE, value |-> <<>>]

\* _channel_data after a fetch that ended with outcome
Fetched(outcome, feed) ==
    IF outcome = "ok"
    THEN [isNone |-> FALSE, value |-> ParseXml(feed)]
    ELSE [isNone |-> FALSE, value |-> <<>>]

\* --------------------------------------------------------------- Screen1
Screen1Init == [BaseScreen EXCEPT !.kind = "Screen1"]

Screen1Move(v, k, num_providers, page_size) ==
    LET cur == CASE k = "UP" -> Max(0, v.current_line - 1)
                 [] k = "DOWN" -> Min(num_providers - 1, v.current_line + 1)
                 [] k = "HOME" -> 0
                 [] k = "END" -> num_providers - 1
                 [] k = "PPAGE" -> Max(0, v.current_line - page_size)
                 [] k = "NPAGE" -> Min(num_providers - 1, v.current_line + page_size)
                 [] OTHER -> v.current_line
        top == IF cur < v.top_line THEN cur
               ELSE IF cur >= v.top_line + page_size THEN cur - page_size + 1
               ELSE v.top_line
    IN [v EXCEPT !.current_line = cur, !.top_line = top]

\* provider_num = self.current_line, forgetting that providers count from 1
ProviderNumFromZero(current_line) == current_line

\* provider_num of the selected row
ProviderNum(current_line) == current_line + 1

\* --------------------------------------------------------------- Screen2
RECURSIVE ScanProgrammesClosed(_, _, _)
\* the window test written start <= now <= stop
ScanProgrammesClosed(progs, t, j) ==
    IF j > Len(progs) THEN 0
    ELSE IF progs[j].start <= t /\ t <= progs[j].stop THEN j
    ELSE ScanProgrammesClosed(progs, t, j + 1)

RECURSIVE ScanProgrammes(_, _, _)
\* the inner loop of _load_data: the index of the first programme from j on
\* with start <= now < stop, 0 when the loop ends without a break
ScanProgrammes(progs, t, j) ==
    IF j > Len(progs) THEN 0
    ELSE IF progs[j].start <= t /\ t < progs[j].stop THEN j
    ELSE ScanProgrammes(progs, t, j + 1)

RECURSIVE LoadData(_, _, _)
\* current_programs after the first n channels of raw_channels
LoadData(raw_channels, t, n) ==
    IF n = 0 THEN <<>>
    ELSE LET prev == LoadData(raw_channels, t, n - 1)
             channel == raw_channels[n]
             j == ScanProgrammes(channel.programmes, t, 1)
         IN IF j = 0 THEN prev
            ELSE Append(prev, [channel |-> channel,
                               program |-> channel.programmes[j]])

Screen2Init(provider_num, raw_channels, t) ==
    LET current_programs == LoadData(raw_channels, t, Len(raw_channels))
    IN [BaseScreen EXCEPT !.kind = "Screen2",
                          !.provider_num = provider_num,
                          !.all_channels = current_programs,
                          !.filtered_channels = current_programs]

\* the name compared without lower()
RowMatchesCaseSensitive(item, text) ==
    Contains(LowerStr(text), item.channel.name)

RowMatches(item, text) ==
    Contains(LowerStr(text), LowerStr(item.channel.name))

\* the filter applied without the reset of the two indices
ApplyFilterKeepsPosition(v, text) ==
    [v EXCEPT !.filter_text = text,
              !.filtered_channels =
                  IF text = <<>> THEN v.all_channels
                  ELSE SelectSeq(v.all_channels,
                                 LAMBDA item : RowMatches(item, text))]

ApplyFilter(v, text) ==
    [v EXCEPT !.filter_text = text,
              !.filtered_channels =
                  IF text = <<>> THEN v.all_channels
                  ELSE SelectSeq(v.all_channels,
                                 LAMBDA item : RowMatches(item, text)),
              !.current_line = 0,
              !.top_line = 0]

\* Down written without min(): the selection runs past the last row
Screen2MoveNoClamp(v, k, num_channels, page_size) ==
    LET cur == CASE k = "UP" -> Max(0, v.current_line - 1)
                 [] k = "DOWN" -> v.current_line + 1
                 [] k = "HOME" -> 0
                 [] k = "END" -> num_channels - 1
                 [] k = "PPAGE" -> Max(0, v.current_line - page_size)
                 [] k = "NPAGE" -> Min(num_channels - 1, v.current_line + page_size)
                 [] OTHER -> v.current_line
        top == IF cur < v.top_line THEN cur
               ELSE IF cur >= v.top_line + page_size THEN cur - page_size + 1
               ELSE v.top_line
    IN [v EXCEPT !.current_line = cur, !.top_line = top]

Screen2Move(v, k, num_channels, page_size) ==
    LET cur == CASE k = "UP" -> Max(0, v.current_line - 1)
                 [] k = "DOWN" -> Min(num_channels - 1, v.current_line + 1)
                 [] k = "HOME" -> 0
                 [] k = "END" -> num_channels - 1
                 [] k = "PPAGE" -> Max(0, v.current_line - page_size)
                 [] k = "NPAGE" -> Min(num_channels - 1, v.current_line + page_size)
                 [] OTHER -> v.current_line
        top == IF cur < v.top_line THEN cur
               ELSE IF cur >= v.top_line + page_size THEN cur - page_size + 1
               ELSE v.top_line
    IN [v EXCEPT !.current_line = cur, !.top_line = top]

\* --------------------------------------------------------------- Screen3
\* list.index(x): the first position holding a value equal to x;
\* Screen3.__init__ turns the ValueError of a missing value into 0
IndexOrZero(s, x) ==
    IF \E i \in 1..Len(s) : s[i] = x
    THEN (CHOOSE i \in 1..Len(s) :
              s[i] = x /\ \A j \in 1..(i - 1) : s[j] # x) - 1
    ELSE 0

\* the viewport opened on the selected row, without the row above it
Screen3InitNoContext(channel_item) ==
    LET current_line == IndexOrZero(channel_item.channel.programmes,
                                    channel_item.program)
    IN [BaseScreen EXCEPT !.kind = "Screen3",
                          !.channel_data = channel_item.channel,
                          !.programmes = channel_item.channel.programmes,
                          !.current_line = current_line,
                          !.top_line = current_line]

Screen3Init(channel_item) ==
    LET current_line == IndexOrZero(channel_item.channel.programmes,
                                    channel_item.program)
    IN [BaseScreen EXCEPT !.kind = "Screen3",
                          !.channel_data = channel_item.channel,
                          !.programmes = channel_item.channel.programmes,
                          !.current_line = current_line,
                          !.top_line = Max(0, current_line - 1)]

\* the viewport re-centred on the selection after every key
Screen3MoveRecenter(v, k, num_programmes, page_size) ==
    LET cur == CASE k = "UP" -> Max(0, v.current_line - 1)
                 [] k = "DOWN" -> Min(num_programmes - 1, v.current_line + 1)
                 [] k = "HOME" -> 0
                 [] k = "END" -> num_programmes - 1
                 [] k = "PPAGE" -> Max(0, v.current_line - page_size)
                 [] k = "NPAGE" -> Min(num_programmes - 1, v.current_line + page_size)
                 [] OTHER -> v.current_line
    IN [v EXCEPT !.current_line = cur,
                 !.top_line = Max(0, cur - (page_size \div 2))]

Screen3Move(v, k, num_programmes, page_size) ==
    LET cur == CASE k = "UP" -> Max(0, v.current_line - 1)
                 [] k = "DOWN" -> Min(num_programmes - 1, v.current_line + 1)
                 [] k = "HOME" -> 0
                 [] k = "END" -> num_programmes - 1
                 [] k = "PPAGE" -> Max(0, v.current_line - page_size)
                 [] k = "NPAGE" -> Min(num_programmes - 1, v.current_line + page_size)
                 [] OTHER -> v.current_line
        top == IF cur < v.top_line THEN cur
               ELSE IF cur >= v.top_line + page_size THEN cur - page_size + 1
               ELSE v.top_line
    IN [v EXCEPT !.current_line = cur, !.top_line = top]

\* --------------------------------------------------------------- Screen4
\* len(self.lines) after _prepare_lines: a single line or MaxLines lines
LineCounts == {1, MaxLines}

\* the detail screen opened on the channel's first programme
Screen4InitFirstProgramme(channel_item, num_lines) ==
    [BaseScreen EXCEPT !.kind = "Screen4",
                       !.program = channel_item.channel.programmes[1],
                       !.num_lines = num_lines]

\* num_lines stands for len(self.lines), the outcome of _prepare_lines
Screen4Init(channel_item, num_lines) ==
    [BaseScreen EXCEPT !.kind = "Screen4",
                       !.program = channel_item.program,
                       !.num_lines = num_lines]

Screen4Move(v, k, page_size) ==
    LET top == CASE k = "UP" -> Max(0, v.top_line - 1)
                 [] k = "DOWN" ->
                        IF v.num_lines > page_size
                        THEN Min(v.num_lines - page_size, v.top_line + 1)
                        ELSE v.top_line
                 [] k = "PPAGE" -> Max(0, v.top_line - page_size)
                 [] k = "NPAGE" ->
                        IF v.num_lines > page_size
                        THEN Min(v.num_lines - page_size, v.top_line + page_size)
                        ELSE v.top_line
                 [] OTHER -> v.top_line
    IN [v EXCEPT !.top_line = top]

\* ------------------------------------------- Screen2.display, progress
\* int(x) for the quotient x = a / b: truncation toward zero
IntQuotient(a, b) ==
    LET sign == IF (a < 0) = (b < 0) THEN 1 ELSE 0 - 1
        abs(x) == IF x < 0 THEN 0 - x ELSE x
    IN sign * (abs(a) \div abs(b))

\* int((elapsed / duration) * 100); the division raises ZeroDivisionError
\* for duration = 0.  For the instants used here the float product has the
\* integer part of the exact quotient 100 * elapsed / duration.
ScaledQuotient(elapsed, duration) ==
    IF duration = 0 THEN [raised |-> TRUE, value |-> 0]
    ELSE [raised |-> FALSE, value |-> IntQuotient(100 * elapsed, duration)]

\* the percentage computed without the test of duration
ProgressPercentUnguarded(program, t) ==
    LET duration == program.stop - program.start
        elapsed == t - program.start
        q == ScaledQuotient(elapsed, duration)
    IN [raised |-> q.raised, value |-> Min(100, Max(0, q.value))]

\* progress_percent of a row at instant t
ProgressPercent(program, t) ==
    LET duration == program.stop - program.start
        elapsed == t - program.start
        q == ScaledQuotient(elapsed, duration)
    IN IF duration > 0
       THEN [raised |-> q.raised, value |-> Min(100, Max(0, q.value))]
       ELSE [raised |-> FALSE, value |-> 0]

progress_bar_width == 10

\* filled_blocks = int(progress_bar_width * progress_percent / 100)
FilledBlocks(progress_percent) ==
    IntQuotient(progress_bar_width * progress_percent, 100)

\* nothing computed yet
NoRow ==
    [done |-> FALSE, program |-> [start |-> 0, stop |-> 0], raised |-> FALSE,
     progress_percent |-> 0, filled_blocks |-> 0]

\* --------------------------------------------------------------- display
\* the drawing loops: "for i in range(page_size)" stops at the first
\* list_index >= len(rows) and reads rows[list_index] otherwise, which
\* raises IndexError for an index below -len(rows)
Screen1DisplayRaises(v) ==
    \E i \in 0..(height - 1) :
        /\ v.top_line + i < numProviders
        /\ ~IndexOK(v.top_line + i, numProviders)

Screen2DisplayRaises(v) ==
    \E i \in 0..(height - 3) :
        /\ v.top_line + i < Len(v.filtered_channels)
        /\ ~IndexOK(v.top_line + i, Len(v.filtered_channels))

Screen3DisplayRaises(v) ==
    \E i \in 0..(height - 1) :
        /\ v.top_line + i < Len(v.programmes)
        /\ ~IndexOK(v.top_line + i, Len(v.programmes))

Screen4DisplayRaises(v) ==
    \E i \in 0..(height - 1) :
        /\ v.top_line + i < v.num_lines
        /\ ~IndexOK(v.top_line + i, v.num_lines)

DisplayRaises(v) ==
    CASE v.kind = "Screen1" -> Screen1DisplayRaises(v)
      [] v.kind = "Screen2" -> Screen2DisplayRaises(v)
      [] v.kind = "Screen3" -> Screen3DisplayRaises(v)
      [] OTHER -> Screen4DisplayRaises(v)

\* page_size of display(): how many list rows one frame draws
DisplayPageSize(v) ==
    CASE v.kind = "Screen2" -> height - 2
      [] OTHER -> height

\* ---------------------------------------------------------------- EPGi.run
Top == screen_stack[Len(screen_stack)]

\* the loop is about to draw the top screen and read a key
Running == status = "running" /\ screen_stack # <<>>

\* action is None: the screen changed its own fields
Stay(v) == [screen_stack EXCEPT ![Len(screen_stack)] = v]
\* the new screen put in the place of the current one
PushedInPlace(v) == [screen_stack EXCEPT ![Len(screen_stack)] = v]

\* action is a BaseScreen
Pushed(v) == Append(screen_stack, v)
\* the view that comes back to the top starts again from its first row
PoppedResettingParent ==
    IF Len(screen_stack) > 1
    THEN [SubSeq(screen_stack, 1, Len(screen_stack) - 1)
             EXCEPT ![Len(screen_stack) - 1].current_line = 0,
                    ![Len(screen_stack) - 1].top_line = 0]
    ELSE screen_stack

\* action == 'BACK'
Popped ==
    IF Len(screen_stack) > 1
    THEN SubSeq(screen_stack, 1, Len(screen_stack) - 1)
    ELSE screen_stack

Init ==
    /\ height \in Heights
    /\ numProviders \in 0..MaxProviders
    /\ now = 0
    /\ channel_cache = [p \in Providers |-> NoData]
    /\ fetchCount = [p \in Providers |-> 0]
    /\ fetched = "none"
    /\ screen_stack = << Screen1Init >>
    /\ key = "NONE"
    /\ status = "running"
    /\ drawn = NoRow
    /\ attributes = NoElement

\* the rows of every ChannelNowList resolved again as the clock advances
TickReloading ==
    /\ Running
    /\ UNCHANGED << drawn, attributes >>
    /\ now < MaxTime
    /\ now' = now + 1
    /\ screen_stack' =
          [n \in 1..Len(screen_stack) |->
              IF screen_stack[n].kind = "Screen2"
              THEN LET raw_channels ==
                          channel_cache[screen_stack[n].provider_num].value
                       current_programs ==
                          LoadData(raw_channels, now + 1, Len(raw_channels))
                   IN [screen_stack[n] EXCEPT
                          !.all_channels = current_programs,
                          !.filtered_channels = current_programs]
              ELSE screen_stack[n]]
    /\ UNCHANGED << height, numProviders, channel_cache, fetchCount, fetched,
                    key, status >>

\* the wall clock advances while the loop waits for a key
Tick ==
    /\ Running
    /\ UNCHANGED << drawn, attributes >>
    /\ now < MaxTime
    /\ now' = now + 1
    /\ UNCHANGED << height, numProviders, channel_cache, fetchCount, fetched,
                    screen_stack, key, status >>

\* current_screen.display() raises: the exception leaves run()
DisplayError ==
    /\ Running
    /\ UNCHANGED << drawn, attributes >>
    /\ DisplayRaises(Top)
    /\ status' = "crashed"
    /\ UNCHANGED << height, numProviders, now, channel_cache, fetchCount,
                    fetched, screen_stack, key >>

\* Screen2(stdscr, config, app, provider_num): app.providers[provider_num],
\* then _load_data, which calls get_channels
OpenProvider(provider_num) ==
    IF provider_num \notin 1..numProviders
    THEN /\ status' = "crashed"
         /\ fetched' = "none"
         /\ UNCHANGED << channel_cache, fetchCount, screen_stack >>
    ELSE \E outcome \in Outcomes, feed \in {ServedBy(provider_num)} :
            LET hit == Cached(channel_cache[provider_num])
                entry == IF hit THEN channel_cache[provider_num]
                         ELSE Fetched(outcome, feed)
            IN /\ channel_cache' = [channel_cache EXCEPT ![provider_num] = entry]
               /\ fetchCount' = [fetchCount EXCEPT ![provider_num] =
                                    IF hit THEN @ ELSE @ + 1]
               /\ fetched' = IF hit THEN "cached" ELSE outcome
               /\ screen_stack' =
                      Pushed(Screen2Init(provider_num, entry.value, now))
               /\ UNCHANGED status

Screen1HandleInput(k) ==
    /\ Running
    /\ UNCHANGED << drawn, attributes >>
    /\ Top.kind = "Screen1"
    /\ ~DisplayRaises(Top)
    /\ key' = k
    /\ UNCHANGED << height, numProviders, now >>
    /\ IF k = "RIGHT"
       THEN OpenProvider(ProviderNum(Top.current_line))
       ELSE IF k \in {"LEFT", "ESC"}
       THEN /\ status' = "exited"
            /\ fetched' = "none"
            /\ UNCHANGED << channel_cache, fetchCount, screen_stack >>
       ELSE /\ screen_stack' =
                   Stay(Screen1Move(Top, k, numProviders, height - 2))
            /\ fetched' = "none"
            /\ UNCHANGED << channel_cache, fetchCount, status >>

Screen2HandleInput(k) ==
    /\ Running
    /\ UNCHANGED << drawn, attributes >>
    /\ Top.kind = "Screen2"
    /\ ~DisplayRaises(Top)
    /\ key' = k
    /\ fetched' = "none"
    /\ UNCHANGED << height, numProviders, now, channel_cache, fetchCount >>
    /\ LET num_channels == Len(Top.filtered_channels)
           page_size == height - 2
       IN CASE k = "F" ->
                 \E input_str \in FilterTexts :
                    /\ screen_stack' =
                          Stay(Screen2Move(ApplyFilter(Top, input_str), k,
                                           num_channels, page_size))
                    /\ UNCHANGED status
            [] k = "C" ->
                 /\ screen_stack' =
                       Stay(Screen2Move(ApplyFilter(Top, <<>>), k,
                                        num_channels, page_size))
                 /\ UNCHANGED status
            [] k = "RIGHT" ->
                 IF IndexOK(Top.current_line, num_channels)
                 THEN /\ screen_stack' = Pushed(Screen3Init(
                             At(Top.filtered_channels, Top.current_line)))
                      /\ UNCHANGED status
                 ELSE /\ status' = "crashed"
                      /\ UNCHANGED screen_stack
            [] k = "ENTER" ->
                 IF IndexOK(Top.current_line, num_channels)
                 THEN \E num_lines \in LineCounts :
                         /\ screen_stack' = Pushed(Screen4Init(
                                At(Top.filtered_channels, Top.current_line),
                                num_lines))
                         /\ UNCHANGED status
                 ELSE /\ status' = "crashed"
                      /\ UNCHANGED screen_stack
            [] k \in {"LEFT", "ESC"} ->
                 /\ screen_stack' = Popped
                 /\ UNCHANGED status
            [] OTHER ->
                 /\ screen_stack' =
                       Stay(Screen2Move(Top, k, num_channels, page_size))
                 /\ UNCHANGED status

Screen3HandleInput(k) ==
    /\ Running
    /\ UNCHANGED << drawn, attributes >>
    /\ Top.kind = "Screen3"
    /\ ~DisplayRaises(Top)
    /\ key' = k
    /\ fetched' = "none"
    /\ UNCHANGED << height, numProviders, now, channel_cache, fetchCount >>
    /\ LET num_programmes == Len(Top.programmes)
           page_size == height - 2
       IN CASE k \in {"RIGHT", "ENTER"} ->
                 IF IndexOK(Top.current_line, num_programmes)
                 THEN \E num_lines \in LineCounts :
                         /\ screen_stack' = Pushed(Screen4Init(
                                [channel |-> Top.channel_data,
                                 program |-> At(Top.programmes, Top.current_line)],
                                num_lines))
                         /\ UNCHANGED status
                 ELSE /\ status' = "crashed"
                      /\ UNCHANGED screen_stack
            [] k \in {"LEFT", "ESC"} ->
                 /\ screen_stack' = Popped
                 /\ UNCHANGED status
            [] OTHER ->
                 /\ screen_stack' =
                       Stay(Screen3Move(Top, k, num_programmes, page_size))
                 /\ UNCHANGED status

Screen4HandleInput(k) ==
    /\ Running
    /\ UNCHANGED << drawn, attributes >>
    /\ Top.kind = "Screen4"
    /\ ~DisplayRaises(Top)
    /\ key' = k
    /\ fetched' = "none"
    /\ UNCHANGED << height, numProviders, now, channel_cache, fetchCount,
                    status >>
    /\ IF k \in {"LEFT", "ESC"}
       THEN screen_stack' = Popped
       ELSE screen_stack' = Stay(Screen4Move(Top, k, height - 2))

Next ==
    \/ Tick
    \/ DisplayError
    \/ \E k \in Keys : Screen1HandleInput(k)
    \/ \E k \in Keys : Screen2HandleInput(k)
    \/ \E k \in Keys : Screen3HandleInput(k)
    \/ \E k \in Keys : Screen4HandleInput(k)

Spec == Init /\ [][Next]_vars

\* ------------------------------------------ the program on any terminal
\* a terminal of one or two rows makes the page size of handle_input zero
\* or negative and lets the page keys move the indices without limit; they
\* are followed from -1 up to MaxIndex
AnyHeights == 1..MaxHeight

InRange(stack) ==
    \A n \in 1..Len(stack) :
        /\ stack[n].current_line \in (0 - 1)..MaxIndex
        /\ stack[n].top_line \in (0 - 1)..MaxIndex

\* one provider configured
InitAnyHeight ==
    /\ height \in AnyHeights
    /\ numProviders = 1
    /\ now = 0
    /\ channel_cache = [p \in Providers |-> NoData]
    /\ fetchCount = [p \in Providers |-> 0]
    /\ fetched = "none"
    /\ screen_stack = << Screen1Init >>
    /\ key = "NONE"
    /\ status = "running"
    /\ drawn = NoRow
    /\ attributes = NoElement

NextAnyHeight ==
    \/ Tick
    \/ DisplayError
    \/ \E k \in Keys : Screen1HandleInput(k) /\ InRange(screen_stack')
    \/ \E k \in Keys : Screen2HandleInput(k) /\ InRange(screen_stack')
    \/ \E k \in Keys : Screen3HandleInput(k) /\ InRange(screen_stack')
    \/ \E k \in Keys : Screen4HandleInput(k) /\ InRange(screen_stack')

SpecAnyHeight == InitAnyHeight /\ [][NextAnyHeight]_vars

\* ------------------------------------- the progress column of a given row
\* a row whose programme starts and stops at any instants, drawn at any
\* instant
InitProgress ==
    /\ height \in Heights
    /\ numProviders = 0
    /\ now \in Stamps
    /\ channel_cache = [p \in Providers |-> NoData]
    /\ fetchCount = [p \in Providers |-> 0]
    /\ fetched = "none"
    /\ screen_stack = << Screen1Init >>
    /\ key = "NONE"
    /\ status = "running"
    /\ \E start \in Stamps, stop \in Stamps :
          drawn = [NoRow EXCEPT !.program = [start |-> start, stop |-> stop]]
    /\ attributes = NoElement

\* the body of the drawing loop for the row, up to progress_bar
DrawRow ==
    /\ ~drawn.done
    /\ LET percent == ProgressPercent(drawn.program, now)
       IN drawn' = [drawn EXCEPT
                       !.done = TRUE,
                       !.raised = percent.raised,
                       !.progress_percent = percent.value,
                       !.filled_blocks = FilledBlocks(percent.value)]
    /\ UNCHANGED << height, numProviders, now, channel_cache, fetchCount,
                    fetched, screen_stack, key, status, attributes >>

NextProgress == DrawRow

SpecProgress == InitProgress /\ [][NextProgress]_vars

\* ---------------------------------- the attributes of a given programme
Tags == {"a", "b"}
Texts == {"", " ", "x", "y "}

\* the lists of at most n child elements
RECURSIVE ChildLists(_)
ChildLists(n) ==
    IF n = 0 THEN { <<>> }
    ELSE LET shorter == ChildLists(n - 1)
         IN shorter \cup
            {Append(c, [tag |-> tag, text |-> text]) :
                c \in shorter, tag \in Tags, text \in Texts}

\* a programme element without or with an XML attribute "a", and up to
\* MaxChildren children, with and without text
InitAttributes ==
    /\ height \in Heights
    /\ numProviders = 0
    /\ now = 0
    /\ channel_cache = [p \in Providers |-> NoData]
    /\ fetchCount = [p \in Providers |-> 0]
    /\ fetched = "none"
    /\ screen_stack = << Screen1Init >>
    /\ key = "NONE"
    /\ status = "running"
    /\ drawn = NoRow
    /\ \E attrib \in { <<>>, << [name |-> "a", value |-> "v"] >> },
          children \in ChildLists(MaxChildren) :
          attributes = [NoElement EXCEPT !.attrib = attrib,
                                         !.children = children]

\* lines 86-96 for the element
CollectAttributes ==
    /\ ~attributes.done
    /\ attributes' =
          [attributes EXCEPT
              !.done = TRUE,
              !.result = BuildAttributes(attributes.attrib,
                                         attributes.children,
                                         Len(attributes.children))]
    /\ UNCHANGED << height, numProviders, now, channel_cache, fetchCount,
                    fetched, screen_stack, key, status, drawn >>

NextAttributes == CollectAttributes

SpecAttributes == InitAttributes /\ [][NextAttributes]_vars

\* ================================================================ claims
ListKinds == {"Screen1", "Screen2", "Screen3"}

\* the row count n of a list view
RowCount(v) ==
    CASE v.kind = "Screen1" -> numProviders
      [] v.kind = "Screen2" -> Len(v.filtered_channels)
      [] OTHER -> Len(v.programmes)

\* the page size of handle_input
PageSize == height - 2

\* a step of the loop in which a key reached the top screen's handle_input
InputStep == Running /\ ~DisplayRaises(Top) /\ now' = now

TopAfter == screen_stack'[Len(screen_stack')]

\* the step pushed a view of this kind and left the views below untouched
PushedKind(kind) ==
    /\ Len(screen_stack') = Len(screen_stack) + 1
    /\ SubSeq(screen_stack', 1, Len(screen_stack)) = screen_stack
    /\ TopAfter.kind = kind

\* the step removed the top view and nothing else
PoppedTo(kinds) ==
    /\ Len(screen_stack) > 1
    /\ screen_stack' = SubSeq(screen_stack, 1, Len(screen_stack) - 1)
    /\ TopAfter.kind \in kinds

\* C1: whenever the current list view has n > 0 rows, 0 <= selectedIndex < n,
\* 0 <= viewportTop and viewportTop <= selectedIndex < viewportTop + pageSize,
\* also right after the view is pushed.
C1_ViewportInvariant ==
    (Top.kind \in ListKinds /\ RowCount(Top) > 0) =>
        /\ 0 <= Top.current_line
        /\ Top.current_line < RowCount(Top)
        /\ 0 <= Top.top_line
        /\ Top.top_line <= Top.current_line
        /\ Top.current_line < Top.top_line + PageSize

\* C2: whenever the current list view has no rows, selectedIndex and
\* viewportTop are both 0.
C2_EmptyViewIndicesZero ==
    (Top.kind \in ListKinds /\ RowCount(Top) = 0) =>
        (Top.current_line = 0 /\ Top.top_line = 0)

\* the step pushed Screen2 for provider p
PushedScreen2(p) == PushedKind("Screen2") /\ TopAfter.provider_num = p

Airing(prog, t) == prog.start <= t /\ t < prog.stop

\* the channels of a snapshot with some programme on air at instant t
OnAir(raw_channels, t) ==
    {i \in 1..Len(raw_channels) :
        \E j \in 1..Len(raw_channels[i].programmes) :
            Airing(raw_channels[i].programmes[j], t)}

\* the k-th smallest member of a set of numbers
KthSmallest(I, k) ==
    CHOOSE i \in I : Cardinality({j \in I : j <= i}) = k

\* rows is the "now" list of the snapshot at instant t: one row per channel
\* on air, in snapshot order, each with the channel's first airing programme
IsNowList(rows, raw_channels, t) ==
    LET I == OnAir(raw_channels, t)
    IN /\ Len(rows) = Cardinality(I)
       /\ \A k \in 1..Len(rows) :
            LET channel == raw_channels[KthSmallest(I, k)]
                first == CHOOSE j \in 1..Len(channel.programmes) :
                            /\ Airing(channel.programmes[j], t)
                            /\ \A h \in 1..(j - 1) :
                                  ~Airing(channel.programmes[h], t)
            IN /\ rows[k].channel = channel
               /\ rows[k].program = channel.programmes[first]

\* C3: each provider is fetched and parsed at most once, on the first push of
\* ChannelNowList for it; every later access leaves the cache entry as it is,
\* fetches nothing and builds the view from that same snapshot.
C3_FetchedAtMostOnce ==
    [][\A p \in Providers :
          /\ fetchCount'[p] <= 1
          /\ (channel_cache[p].isNone /\ PushedScreen2(p)) =>
                /\ fetchCount'[p] = 1
                /\ ~channel_cache'[p].isNone
                /\ fetched' \in Outcomes
          /\ ~channel_cache[p].isNone =>
                /\ channel_cache'[p] = channel_cache[p]
                /\ fetchCount'[p] = fetchCount[p]
                /\ PushedScreen2(p) =>
                      /\ fetched' = "cached"
                      /\ IsNowList(TopAfter.all_channels,
                                   channel_cache[p].value, now)
      ]_vars

\* a provider entered a second time: the view was built from the cache
C3_Witness ==
    /\ Top.kind = "Screen2"
    /\ key = "RIGHT"
    /\ fetched = "cached"
    /\ fetchCount[Top.provider_num] = 1
    /\ Top.all_channels # <<>>

EmptySnapshot == [isNone |-> FALSE, value |-> <<>>]

\* C4: a fetch that fails in any way gives the caller an empty snapshot (the
\* loop keeps running, the view has no rows) and stores it; later accesses
\* get the stored empty snapshot and fetch nothing.
C4_FailureCachedAsEmpty ==
    [][/\ fetched' \in Failures =>
            /\ status' = "running"
            /\ TopAfter.kind = "Screen2"
            /\ TopAfter.all_channels = <<>>
            /\ channel_cache'[TopAfter.provider_num] = EmptySnapshot
       /\ \A p \in Providers :
            channel_cache[p] = EmptySnapshot =>
                /\ channel_cache'[p] = EmptySnapshot
                /\ fetchCount'[p] = fetchCount[p]
                /\ PushedScreen2(p) =>
                      /\ TopAfter.all_channels = <<>>
                      /\ fetched' = "cached"
                      /\ status' = "running"
      ]_vars

\* a provider whose fetch failed, entered again
C4_Witness ==
    /\ Top.kind = "Screen2"
    /\ key = "RIGHT"
    /\ fetched = "cached"
    /\ channel_cache[Top.provider_num] = EmptySnapshot
    /\ fetchCount[Top.provider_num] = 1
    /\ Top.all_channels = <<>>

\* C5: in a ChannelNowList without rows every key leaves the controller
\* running, and Left/Escape returns to ProviderList.
C5_EmptyChannelListKeepsRunning ==
    [][(Running /\ now' = now /\ Top.kind = "Screen2"
          /\ Top.all_channels = <<>>) =>
            /\ status' = "running"
            /\ key' \in {"LEFT", "ESC"} => PoppedTo({"Screen1"})
      ]_vars

\* C6: the loop ends only when the root view returns Exit; the stack is never
\* empty, and a Back with only the root view left changes nothing.
C6_LoopEndsOnlyOnExit ==
    [][/\ screen_stack' # <<>>
       /\ (status = "running" /\ status' # "running") =>
            /\ status' = "exited"
            /\ Len(screen_stack) = 1
            /\ Top.kind = "Screen1"
            /\ key' \in {"LEFT", "ESC"}
       /\ Len(screen_stack) = 1 => Len(screen_stack') >= 1
      ]_vars

Selected(rows, v) == rows[v.current_line + 1]

\* C8: with rows in the list, ChannelNowList opens ChannelTimeline on Right
\* and ProgrammeDetail on Enter for the selected row and pops to ProviderList
\* on Left/Escape; ChannelTimeline opens ProgrammeDetail for the selected
\* programme on Right/Enter and pops to ChannelNowList; ProgrammeDetail pops
\* to the view that pushed it.
C8_ForwardAndBack ==
    [][InputStep =>
          /\ (Top.kind = "Screen2" /\ Top.filtered_channels # <<>>) =>
                /\ key' = "RIGHT" =>
                      /\ PushedKind("Screen3")
                      /\ TopAfter.channel_data =
                            Selected(Top.filtered_channels, Top).channel
                      /\ TopAfter.programmes =
                            Selected(Top.filtered_channels, Top).channel.programmes
                /\ key' = "ENTER" =>
                      /\ PushedKind("Screen4")
                      /\ TopAfter.program =
                            Selected(Top.filtered_channels, Top).program
                /\ key' \in {"LEFT", "ESC"} => PoppedTo({"Screen1"})
          /\ (Top.kind = "Screen3" /\ Top.programmes # <<>>) =>
                /\ key' \in {"RIGHT", "ENTER"} =>
                      /\ PushedKind("Screen4")
                      /\ TopAfter.program = Selected(Top.programmes, Top)
                /\ key' \in {"LEFT", "ESC"} => PoppedTo({"Screen2"})
          /\ (Top.kind = "Screen4" /\ key' \in {"LEFT", "ESC"}) =>
                /\ PoppedTo({"Screen2", "Screen3"})
                /\ TopAfter = screen_stack[Len(screen_stack) - 1]
      ]_vars

\* ProgrammeDetail opened from ChannelTimeline on a programme that is not the
\* channel's first
C8_Witness ==
    /\ Len(screen_stack) = 4
    /\ key \in {"RIGHT", "ENTER"}
    /\ screen_stack[3].kind = "Screen3"
    /\ screen_stack[3].current_line > 0
    /\ Top.kind = "Screen4"
    /\ Top.program = Selected(screen_stack[3].programmes, screen_stack[3])

\* C9: when ChannelNowList is built, a channel of the snapshot has a row iff
\* one of its programmes has start <= now < stop, the row shows the first such
\* programme in list order, and the rows keep the snapshot's channel order.
C9_NowListRows ==
    [][\A p \in Providers :
          PushedScreen2(p) =>
              /\ IsNowList(TopAfter.all_channels, channel_cache'[p].value, now)
              /\ TopAfter.filtered_channels = TopAfter.all_channels
      ]_vars

\* two programmes with a common instant
Overlap(a, b) == Max(a.start, b.start) < Min(a.stop, b.stop)

\* a now list that leaves a channel of the snapshot out and has a row whose
\* channel carries a later programme overlapping the one shown
C9_Witness ==
    /\ Top.kind = "Screen2"
    /\ key = "RIGHT"
    /\ fetched = "ok"
    /\ LET raw == channel_cache[Top.provider_num].value
       IN /\ 0 < Len(Top.all_channels)
          /\ Len(Top.all_channels) < Len(raw)
          /\ \E k \in 1..Len(Top.all_channels) :
                LET progs == Top.all_channels[k].channel.programmes
                IN \E i, j \in 1..Len(progs) :
                      /\ i < j
                      /\ progs[i] = Top.all_channels[k].program
                      /\ Airing(progs[j], now)
                      /\ Overlap(progs[i], progs[j])

SameLetter(c, d) ==
    c = d \/ {c, d} \in { {"a", "A"}, {"b", "B"}, {"n", "N"} }

\* text occurs in name, letter case ignored
OccursIgnoringCase(text, name) ==
    \E k \in 0..(Len(name) - Len(text)) :
        \A i \in 1..Len(text) : SameLetter(name[k + i], text[i])

\* C10: the filtered rows are a function of (allRows, filterText) alone: all
\* rows for the empty text, else exactly the rows whose channel name contains
\* the text case-insensitively, in the order of allRows; filtering the result
\* again with the same text changes nothing.
C10_FilterSelectsMatchingRows ==
    \A n \in 1..Len(screen_stack) :
        LET v == screen_stack[n]
            text == v.filter_text
            all == v.all_channels
            I == {k \in 1..Len(all) :
                     OccursIgnoringCase(text, all[k].channel.name)}
            again == ApplyFilter([v EXCEPT !.all_channels = v.filtered_channels],
                                 text)
        IN v.kind = "Screen2" =>
              /\ text = <<>> => v.filtered_channels = all
              /\ text # <<>> =>
                    /\ Len(v.filtered_channels) = Cardinality(I)
                    /\ \A k \in 1..Cardinality(I) :
                          v.filtered_channels[k] = all[KthSmallest(I, k)]
              /\ ApplyFilter(v, text).filtered_channels = v.filtered_channels
              /\ again.filtered_channels = v.filtered_channels

\* a filter typed in another letter case than the names, which keeps two rows
\* and drops the row between them
C10_Witness ==
    /\ Top.kind = "Screen2"
    /\ key = "F"
    /\ Top.filter_text = <<"N">>
    /\ Len(Top.all_channels) = 3
    /\ Top.filtered_channels =
          << Top.all_channels[1], Top.all_channels[3] >>

SelectionMovedTo(c) ==
    /\ Len(screen_stack') = Len(screen_stack)
    /\ TopAfter.kind = Top.kind
    /\ TopAfter.current_line = c
    /\ 0 <= c
    /\ c < RowCount(Top)
    /\ status' = "running"

\* C12: in a list view with n > 0 rows Up and Down move selectedIndex by one
\* and stop at 0 and n-1, Home sets it to 0 and End to n-1, without error; so
\* Down repeated from row 0 ends on row n-1 and stays there.
C12_UpDownHomeEnd ==
    [][(InputStep /\ Top.kind \in ListKinds /\ RowCount(Top) > 0) =>
          LET n == RowCount(Top)
              cur == Top.current_line
          IN /\ key' = "UP" =>
                   SelectionMovedTo(IF cur > 0 THEN cur - 1 ELSE 0)
             /\ key' = "DOWN" =>
                   SelectionMovedTo(IF cur < n - 1 THEN cur + 1 ELSE n - 1)
             /\ key' = "HOME" => SelectionMovedTo(0)
             /\ key' = "END" => SelectionMovedTo(n - 1)
      ]_vars

\* Down pressed in a 3-row list leaves the selection on the last row
C12_Witness ==
    /\ Top.kind \in ListKinds
    /\ key = "DOWN"
    /\ RowCount(Top) = 3
    /\ Top.current_line = 2

\* C13: in every list view PageUp and PageDown move selectedIndex by one page,
\* clamped to [0, n-1], the page being the number of rows the view draws in
\* one frame.
C13_PageKeysMoveByViewportHeight ==
    [][(InputStep /\ Top.kind \in ListKinds /\ RowCount(Top) > 0) =>
          LET n == RowCount(Top)
              cur == Top.current_line
              page == DisplayPageSize(Top)
          IN /\ key' = "PPAGE" =>
                   TopAfter.current_line = Max(0, cur - page)
             /\ key' = "NPAGE" =>
                   TopAfter.current_line = Min(n - 1, cur + page)
      ]_vars

MoveKeys == {"UP", "DOWN", "HOME", "END", "PPAGE", "NPAGE"}

\* C14: after a selection move in a list view viewportTop is unchanged when
\* the new selectedIndex lies in [viewportTop, viewportTop + pageSize), becomes
\* selectedIndex when the selection is above the window and
\* selectedIndex - pageSize + 1 when it is below (pageSize being the page of
\* the key handler).
C14_ViewportFollowsMinimally ==
    [][(InputStep /\ Top.kind \in ListKinds /\ key' \in MoveKeys) =>
          LET cur == TopAfter.current_line
              top == Top.top_line
          IN /\ Len(screen_stack') = Len(screen_stack)
             /\ TopAfter.kind = Top.kind
             /\ (top <= cur /\ cur < top + PageSize) =>
                   TopAfter.top_line = top
             /\ cur < top => TopAfter.top_line = cur
             /\ cur >= top + PageSize =>
                   TopAfter.top_line = cur - PageSize + 1
      ]_vars

\* Down moved the selection below the window and the window followed by
\* one row
C14_Witness ==
    /\ Top.kind \in ListKinds
    /\ key = "DOWN"
    /\ Top.top_line >= 1
    /\ Top.current_line = Top.top_line + PageSize - 1
    /\ Top.current_line < RowCount(Top)

C16_DetailViewportWithinBounds ==
    Top.kind = "Screen4" =>
        /\ 0 <= Top.top_line
        /\ Top.top_line <= Max(0, Top.num_lines - PageSize)

\* C17: the progress percent drawn for a row is an integer in [0, 100],
\* computed without a division by zero, and it is 0 whenever stop <= start.
C17_PercentWithinRange ==
    drawn.done =>
        /\ ~drawn.raised
        /\ drawn.progress_percent \in 0..100
        /\ drawn.program.stop <= drawn.program.start =>
              drawn.progress_percent = 0

\* a row of zero duration drawn after its start
C17_Witness ==
    /\ drawn.done
    /\ drawn.program.stop = drawn.program.start
    /\ now > drawn.program.start
    /\ drawn.progress_percent = 0

\* q is 100 * elapsed / duration rounded to the nearest integer
IsNearest(q, elapsed, duration) ==
    LET twice == 2 * (100 * elapsed - q * duration)
    IN (0 - duration) <= twice /\ twice <= duration

\* C18: for stop > start the percent drawn is
\* clamp(0, 100, round(100 * (now - start) / (stop - start))), and the bar has
\* floor(10 * percent / 100) filled cells.
C18_PercentRoundedToNearest ==
    (drawn.done /\ drawn.program.stop > drawn.program.start) =>
        LET duration == drawn.program.stop - drawn.program.start
            elapsed == now - drawn.program.start
        IN /\ \E q \in (0 - 100 * (MaxStamp + 1))..(100 * (MaxStamp + 1)) :
                 /\ IsNearest(q, elapsed, duration)
                 /\ drawn.progress_percent = Min(100, Max(0, q))
           /\ drawn.filled_blocks = (10 * drawn.progress_percent) \div 100

\* the channel elements of a feed that give a channel: an id and a name
DeclaredChannels(feed) ==
    {n \in 1..Len(feed.channels) :
        feed.channels[n].id # "" /\ feed.channels[n].name # <<>>}

\* the programme elements of a feed that belong to channel element c and
\* whose start and stop satisfy ok
ProgrammesOf(feed, c, ok(_)) ==
    {n \in 1..Len(feed.programmes) :
        /\ feed.programmes[n].channel = feed.channels[c].id
        /\ ok(feed.programmes[n].start)
        /\ ok(feed.programmes[n].stop)}

\* a timestamp YYYYMMDDHHMMSS, with or without the offset suffix
IsTimestamp(raw) == raw.t >= 0

\* programme element n as the snapshot holds it
Parsed(feed, n) ==
    [title |-> feed.programmes[n].title,
     start |-> feed.programmes[n].start.t,
     stop |-> feed.programmes[n].stop.t]

\* the snapshot holds the programme for the channel named name
InSnapshot(snapshot, name, programme) ==
    \E i \in 1..Len(snapshot) :
        /\ snapshot[i].name = name
        /\ \E j \in 1..Len(snapshot[i].programmes) :
              snapshot[i].programmes[j] = programme

HasRow(rows, name) == \E k \in 1..Len(rows) : rows[k].channel.name = name

\* C19: a programme whose start and stop are timestamps is in the snapshot
\* whether or not the offset suffix follows them; while it is on air its
\* channel has a row in ChannelNowList, and the row shows it when it is the
\* channel's only programme on air.
C19_OffsetSuffixOptional ==
    [][\A p \in Providers :
          (PushedScreen2(p) /\ fetched' = "ok") =>
              LET feed == ServedBy(p)
                  snapshot == channel_cache'[p].value
                  rows == TopAfter.all_channels
              IN \A c \in DeclaredChannels(feed) :
                    LET name == feed.channels[c].name
                        progs == ProgrammesOf(feed, c, IsTimestamp)
                        onAir == {n \in progs : Airing(Parsed(feed, n), now)}
                    IN /\ \A n \in progs :
                             InSnapshot(snapshot, name, Parsed(feed, n))
                       /\ onAir # {} => HasRow(rows, name)
                       /\ \A n \in onAir :
                             onAir = {n} =>
                                \E k \in 1..Len(rows) :
                                    /\ rows[k].channel.name = name
                                    /\ rows[k].program = Parsed(feed, n)
      ]_vars

\* C20: a programme element whose start or stop does not parse is left out by
\* itself: the snapshot has every declared channel with exactly its other
\* programmes, and a channel has a row in ChannelNowList iff one of those is
\* on air.
C20_BadProgrammeSkippedAlone ==
    [][\A p \in Providers :
          (PushedScreen2(p) /\ fetched' = "ok") =>
              LET feed == ServedBy(p)
                  snapshot == channel_cache'[p].value
                  rows == TopAfter.all_channels
              IN /\ Len(snapshot) = Cardinality(DeclaredChannels(feed))
                 /\ \A c \in DeclaredChannels(feed) :
                       LET name == feed.channels[c].name
                           progs == ProgrammesOf(feed, c, StrptimeOK)
                       IN /\ \A n \in progs :
                                InSnapshot(snapshot, name, Parsed(feed, n))
                          /\ \E i \in 1..Len(snapshot) :
                                /\ snapshot[i].name = name
                                /\ Len(snapshot[i].programmes) =
                                      Cardinality(progs)
                          /\ HasRow(rows, name) <=>
                                \E n \in progs : Airing(Parsed(feed, n), now)
      ]_vars

\* the feed with a programme whose start is no timestamp, fetched: its channel
\* keeps its two valid programmes and has a row
C20_Witness ==
    /\ Top.kind = "Screen2"
    /\ key = "RIGHT"
    /\ fetched = "ok"
    /\ \E n \in 1..Len(ServedBy(Top.provider_num).programmes) :
          ServedBy(Top.provider_num).programmes[n].start = BadStamp
    /\ Len(channel_cache[Top.provider_num].value) = 1
    /\ Len(channel_cache[Top.provider_num].value[1].programmes) = 2
    /\ Len(Top.all_channels) = 1

\* the texts of the children with this tag that have text, in document order
TextsOf(children, tag) ==
    LET with == SelectSeq(children,
                          LAMBDA c : c.tag = tag /\ Strip(c.text) # "")
    IN [i \in 1..Len(with) |-> Strip(with[i].text)]

\* the mapping holds one entry for key, single or a sequence, with these items
MapsTo(mapping, k, isList, items) ==
    /\ Cardinality({i \in 1..Len(mapping) : mapping[i].key = k}) = 1
    /\ \A i \in 1..Len(mapping) :
          mapping[i].key = k =>
              (mapping[i].isList = isList /\ mapping[i].items = items)

\* C22: in a programme's attributes mapping a child tag (with text) that
\* occurs once maps to its single text, a child tag that repeats maps to the
\* sequence of its texts in document order, and a key that is one of the
\* element's XML attributes keeps the XML attribute's value, whatever child
\* tags of that name there are.
C22_AttributePrecedence ==
    attributes.done =>
        \A tag \in Tags :
            LET values == TextsOf(attributes.children, tag)
                own == {i \in 1..Len(attributes.attrib) :
                           attributes.attrib[i].name = tag}
            IN /\ \A i \in own :
                     MapsTo(attributes.result, tag, FALSE,
                            << attributes.attrib[i].value >>)
               /\ (own = {} /\ Len(values) = 1) =>
                     MapsTo(attributes.result, tag, FALSE, values)
               /\ (own = {} /\ Len(values) >= 2) =>
                     MapsTo(attributes.result, tag, TRUE, values)

\* C21: every snapshot has its channels in the order of their display names
\* and each channel's programmes in non-decreasing order of start, whatever
\* the order of the elements in the feed.
C21_SnapshotSorted ==
    \A p \in Providers :
        LET snapshot == channel_cache[p].value
        IN /\ \A i, j \in 1..Len(snapshot) :
                 i < j => StrLE(snapshot[i].name, snapshot[j].name)
           /\ \A i \in 1..Len(snapshot) :
                 \A a, b \in 1..Len(snapshot[i].programmes) :
                    a < b => snapshot[i].programmes[a].start
                                <= snapshot[i].programmes[b].start

\* the snapshot of a feed whose channel elements and programme elements are
\* out of order
C21_Witness ==
    \E p \in Providers :
        LET feed == ServedBy(p)
            snapshot == channel_cache[p].value
        IN /\ Len(snapshot) = 3
           /\ snapshot[1].name # feed.channels[1].name
           /\ \E i \in 1..Len(snapshot) : Len(snapshot[i].programmes) = 3
           /\ feed.programmes[1].start.t > feed.programmes[3].start.t
           /\ feed.programmes[1].channel = feed.programmes[3].channel

StackKinds == [n \in 1..Len(screen_stack) |-> screen_stack[n].kind]

\* C23: the view stack always has ProviderList at the bottom and one of five
\* shapes, at most 4 deep, no kind twice.
C23_StackShapes ==
    StackKinds \in
        { << "Screen1" >>,
          << "Screen1", "Screen2" >>,
          << "Screen1", "Screen2", "Screen3" >>,
          << "Screen1", "Screen2", "Screen4" >>,
          << "Screen1", "Screen2", "Screen3", "Screen4" >> }

\* ProgrammeDetail opened straight from ChannelNowList
C23_Witness ==
    /\ Len(screen_stack) = 3
    /\ Top.kind = "Screen4"
    /\ key = "ENTER"

\* C24: no step changes a view below the top one, a push leaves the view that
\* pushed as it is and a pop only removes the top view, so a parent comes back
\* with selectedIndex, viewportTop, filterText and filtered rows as they were
\* at the push; a ChannelNowList pushed from ProviderList starts at
\* selectedIndex 0, viewportTop 0 with an empty filter.
C24_ParentStatePreserved ==
    [][/\ \A n \in 1..(Len(screen_stack) - 1) :
             n <= Len(screen_stack') => screen_stack'[n] = screen_stack[n]
       /\ Len(screen_stack') > Len(screen_stack) =>
             SubSeq(screen_stack', 1, Len(screen_stack)) = screen_stack
       /\ Len(screen_stack') < Len(screen_stack) =>
             screen_stack' = SubSeq(screen_stack, 1, Len(screen_stack) - 1)
       /\ \A p \in Providers :
             PushedScreen2(p) =>
                 /\ TopAfter.current_line = 0
                 /\ TopAfter.top_line = 0
                 /\ TopAfter.filter_text = <<>>
                 /\ TopAfter.filtered_channels = TopAfter.all_channels
      ]_vars

\* back in a filtered ChannelNowList whose second row is selected
C24_Witness ==
    /\ Top.kind = "Screen2"
    /\ key \in {"LEFT", "ESC"}
    /\ Top.filter_text # <<>>
    /\ Top.current_line = 1
    /\ Len(Top.filtered_channels) = 2

\* C25: the rows of a ChannelNowList are those resolved when it was pushed: no
\* step, of the clock or of a key, changes the row set of a view that stays on
\* the stack; a row whose programme has stopped is drawn at 100%, and no row
\* is added for a channel that comes on air later.
C25_RowsResolvedOnce ==
    [][\A n \in 1..Len(screen_stack') :
          screen_stack'[n].kind = "Screen2" =>
              LET rows == screen_stack'[n].all_channels
              IN /\ (n <= Len(screen_stack)
                       /\ screen_stack[n].kind = "Screen2") =>
                       rows = screen_stack[n].all_channels
                 /\ \A k \in 1..Len(rows) :
                       /\ rows[k].program.start <= now'
                       /\ rows[k].program.stop <= now' =>
                             ProgressPercent(rows[k].program, now').value = 100
      ]_vars

\* a list with a row whose programme has stopped, while a channel without a
\* row is on air
C25_Witness ==
    /\ Top.kind = "Screen2"
    /\ \E k \in 1..Len(Top.all_channels) :
          /\ Top.all_channels[k].program.stop <= now
          /\ ProgressPercent(Top.all_channels[k].program, now).value = 100
    /\ \E i \in OnAir(channel_cache[Top.provider_num].value, now) :
          ~HasRow(Top.all_channels,
                  channel_cache[Top.provider_num].value[i].name)

====
